---------------------------- MODULE Spec2Model ----------------------------
(***************************************************************************)
(* Model of src/app.py: the Flask proverb-annotation application.          *)
(*                                                                         *)
(* State: the three CSV files under data/ that the handlers rewrite        *)
(* (new_annotations.csv, repository.csv, annotators.csv), the signed       *)
(* cookie session of the browser, and the response to the last request.    *)
(* Every request handler is one action; requests run one after another.    *)
(*                                                                         *)
(* Text is a sequence of characters.  The alphabet is                      *)
(*   "a"    LATIN SMALL LETTER A                                           *)
(*   "A"    LATIN CAPITAL LETTER A                                         *)
(*   "n"    LATIN SMALL LETTER N                                           *)
(*   " "    SPACE                                                          *)
(*   "TA"   TELUGU LETTER A   (U+0C05, ITRANS "a")                         *)
(*   "TAA"  TELUGU LETTER AA  (U+0C06, ITRANS "A")                         *)
(* A CSV cell holds text; pandas reads an empty cell as the float NaN and  *)
(* writes NaN as an empty cell.  The timestamp and last_active columns are *)
(* written but never read by any handler and are left out.                 *)
(***************************************************************************)
EXTENDS Integers, Sequences, FiniteSets, TLC

\* NEWFILE is the file the source names NEW (a reserved word here)
VARIABLES NEWFILE, REPO, ANNOTATORS, session, resp

\* hist: what has happened so far (a history variable, not program state):
\*       the submissions stored per contributor, the serials approved, and
\*       the serials approved that no later submission was given again
\* req:  the approve requests in flight, each with the locals of its handler
\* fn:   the argument, a variant of it and the result of a call of a helper
VARIABLES hist, req, fn

vars == <<NEWFILE, REPO, ANNOTATORS, session, resp, hist, req, fn>>

(***************************************************************************)
(* Bounds                                                                  *)
(***************************************************************************)
\* records ever submitted (pending + canonical); caps the counters too
MaxRecords == 2

\* characters of the text a helper is called on
MaxLen == 3

\* characters a variant of that text may have more than the text
MaxPad == 2

(***************************************************************************)
(* Text helpers                                                            *)
(***************************************************************************)
\* the float NaN that pandas yields for an empty cell
NaN == <<"NaN">>

\* str(x): the text itself, "nan" for the float NaN
Str(x) == IF x = NaN THEN <<"n", "a", "n">> ELSE x

LowerChar(c) == IF c = "A" THEN "a" ELSE c

\* str.lower()
Lower(s) == [i \in 1..Len(s) |-> LowerChar(s[i])]

RECURSIVE Keep(_, _)
\* the characters of s kept by " ".join(s.strip().split()), from position i on
Keep(s, i) ==
    IF i > Len(s) THEN <<>>
    ELSE IF s[i] # " " THEN <<s[i]>> \o Keep(s, i + 1)
    ELSE IF /\ i > 1
            /\ s[i - 1] # " "
            /\ \E j \in (i + 1)..Len(s) : s[j] # " "
         THEN <<" ">> \o Keep(s, i + 1)
         ELSE Keep(s, i + 1)

\* normalize(text) without the lower()
normalize_no_lower(text) == Keep(Str(text), 1)

\* normalize(text)
normalize(text) == Keep(Lower(Str(text)), 1)

\* the outcome of a call that raised
Raise == <<"Raise">>

TranslitChar(c) == IF c = "TA" THEN "a" ELSE IF c = "TAA" THEN "A" ELSE c

\* transliterate(text, TELUGU, ITRANS): Telugu letters to ITRANS, the rest
\* passed through; a float argument raises
transliterate(text) ==
    IF text = NaN THEN Raise
    ELSE [i \in 1..Len(text) |-> TranslitChar(text[i])]

\* to_roman(text): on an exception of the engine text.lower(), which raises
\* in turn for a float
to_roman(text) ==
    IF transliterate(text) # Raise THEN Lower(transliterate(text))
    ELSE IF text = NaN THEN Raise
    ELSE Lower(text)

\* to_roman(text) with the outcome of the engine as an input: the try
\* branch if transliterate returns, the except branch (text.lower(), itself
\* raising for a float) if it raises, as it always does for a float
to_roman_engine(text, engine_raises) ==
    IF text # NaN /\ ~engine_raises
    THEN Lower([i \in 1..Len(text) |-> TranslitChar(text[i])])
    ELSE IF text = NaN THEN Raise
    ELSE Lower(text)

(***************************************************************************)
(* CSV storage                                                             *)
(***************************************************************************)
\* pd.read_csv on one text cell
read_cell(c) == IF c = <<>> THEN NaN ELSE c

\* DataFrame.to_csv with na_rep="nan" on one text value
write_cell_na_rep(v) == IF v = NaN THEN <<"n", "a", "n">> ELSE v

\* DataFrame.to_csv on one text value
write_cell(v) == IF v = NaN THEN <<>> ELSE v

TextCols == {"proverb_telugu", "proverb_english", "meaning_english", "keywords"}

\* safe_read(path): the file as a DataFrame
safe_read(file) ==
    [i \in 1..Len(file) |->
        [c \in DOMAIN file[i] |->
            IF c \in TextCols THEN read_cell(file[i][c]) ELSE file[i][c]]]

\* df.to_csv(path, index=False)
to_csv(df) ==
    [i \in 1..Len(df) |->
        [c \in DOMAIN df[i] |->
            IF c \in TextCols THEN write_cell(df[i][c]) ELSE df[i][c]]]

\* data/users.csv, read by authenticate and never written
UsersFile == {[username |-> "admin", password |-> "pw"],
              [username |-> "u1", password |-> "pw"]}

\* the usernames of data/users.csv
Usernames == {u.username : u \in UsersFile}

(***************************************************************************)
(* Request inputs                                                          *)
(***************************************************************************)
\* no value: a key the session does not hold
None == "None"

UsernameInputs == {"", "ADMIN", "u1"}
PasswordInputs == {"pw", "bad"}
\* the optional display name is left blank: the contributor is the username
NameInputs == {""}

\* str.strip().lower() on the username field
StripLower(u) == IF u = "ADMIN" THEN "admin" ELSE u

\* the forms a contributor posts: all fields blank; a proverb in Telugu with
\* its roman form; the same proverb spelled with a long vowel and a trailing
\* space, roman form left blank
Forms ==
    {[proverb_telugu |-> <<>>, proverb_english |-> <<>>,
      meaning_english |-> <<>>, keywords |-> <<>>],
     [proverb_telugu |-> <<"TA">>, proverb_english |-> <<" ", "A">>,
      meaning_english |-> <<"a", " ", "a">>, keywords |-> <<"n">>],
     [proverb_telugu |-> <<"TAA", " ">>, proverb_english |-> <<>>,
      meaning_english |-> <<"a", " ", "a">>, keywords |-> <<"n">>]}

VerifyInputs == {<<>>, <<"TA">>, <<"a", " ">>, <<"n", "a", "n">>}

SerialInputs == 1..MaxRecords

Methods == {"GET", "POST"}

(***************************************************************************)
(* Helpers                                                                 *)
(***************************************************************************)
\* authenticate(username, password)
authenticate(username, password) ==
    \E u \in UsersFile : /\ u.username = StripLower(username)
                         /\ u.password = password

\* is_admin() testing only that the session holds a role
is_admin_any_role == session.role # None

\* is_admin()
is_admin == session.role = "admin"

\* session.clear()
EmptySession == [username |-> None, annotator |-> None, role |-> None]

RECURSIVE SeqMax(_, _)
\* df["serial_no"].max() over rows i..Len(df)
SeqMax(df, i) ==
    IF i > Len(df) THEN 0
    ELSE IF df[i].serial_no > SeqMax(df, i + 1) THEN df[i].serial_no
         ELSE SeqMax(df, i + 1)

\* next_serial() numbering over the pending and the approved records
next_serial_global == Len(NEWFILE) + Len(REPO) + 1

\* next_serial() with the row count in place of the maximum + 1
next_serial_len == IF NEWFILE = <<>> THEN 1 ELSE Len(NEWFILE)

\* next_serial()
next_serial ==
    IF safe_read(NEWFILE) = <<>> THEN 1 ELSE SeqMax(safe_read(NEWFILE), 1) + 1

\* ensure_annotator(name, username): the ledger file it writes
ensure_annotator(name, username) ==
    IF \A i \in 1..Len(ANNOTATORS) : ANNOTATORS[i].name # name
    THEN Append(ANNOTATORS,
                [name |-> name, username |-> username, contributions |-> 0])
    ELSE ANNOTATORS

\* increment_contribution(name) adding to the whole column, without the mask
increment_contribution_all(name) ==
    [i \in 1..Len(ANNOTATORS) |->
        [ANNOTATORS[i] EXCEPT !.contributions = @ + 1]]

\* increment_contribution(name): the ledger file it writes
increment_contribution(name) ==
    [i \in 1..Len(ANNOTATORS) |->
        IF ANNOTATORS[i].name = name
        THEN [ANNOTATORS[i] EXCEPT !.contributions = @ + 1]
        ELSE ANNOTATORS[i]]

\* get_contribution_count(name)
get_contribution_count(name) ==
    IF \E i \in 1..Len(ANNOTATORS) : ANNOTATORS[i].name = name
    THEN ANNOTATORS[CHOOSE i \in 1..Len(ANNOTATORS) :
                        /\ ANNOTATORS[i].name = name
                        /\ \A j \in 1..(i - 1) : ANNOTATORS[j].name # name
                   ].contributions
    ELSE 0

\* the column selection of admin_approve with the two proverb columns swapped
RepoCols_swapped(row) ==
    [proverb_telugu |-> row.proverb_english,
     proverb_english |-> row.proverb_telugu,
     meaning_english |-> row.meaning_english,
     keywords |-> row.keywords]

\* the four columns admin_approve copies into the repository
RepoCols(row) ==
    [proverb_telugu |-> row.proverb_telugu,
     proverb_english |-> row.proverb_english,
     meaning_english |-> row.meaning_english,
     keywords |-> row.keywords]

\* the response to a request: the status code with the redirect target or the
\* template rendered, or the "status" member of the JSON body of verify
Response(op, arg, status) == status

\* the approve requests that may be in flight at once
Requests == {1, 2}

\* a request slot with no request in it
NoRequest == [pc |-> "idle", serial_no |-> 0, new_df |-> <<>>, repo_df |-> <<>>]

\* no result: the helper has not been called on the present texts
NoResult == [f |-> None, raised |-> FALSE, result |-> <<>>, of_y |-> <<>>,
             twice |-> <<>>]

\* no helper has been called
NoCall == [x |-> <<>>, y |-> <<>>, out |-> NoResult]

(***************************************************************************)
(* Initial state: ensure_file has created the three files, header only     *)
(***************************************************************************)
Init ==
    /\ NEWFILE = <<>>
    /\ REPO = <<>>
    /\ ANNOTATORS = <<>>
    /\ session = EmptySession
    /\ resp = None
    /\ hist = [submitted |-> [u \in Usernames |-> 0], approved |-> {},
               retired |-> {}]
    /\ req = [r \in Requests |-> NoRequest]
    /\ fn = NoCall

(***************************************************************************)
(* Request handlers                                                        *)
(***************************************************************************)
RECURSIVE Scan(_, _, _)
\* the two loops of verify over the rows of REPO then NEW, from row i on
Scan(rows, key, i) ==
    IF i > Len(rows) THEN "new"
    ELSE IF to_roman(rows[i].proverb_telugu) = Raise THEN "500"
    ELSE IF \/ key = normalize(to_roman(rows[i].proverb_telugu))
            \/ key = normalize(rows[i].proverb_english)
         THEN "exists"
         ELSE Scan(rows, key, i + 1)

\* POST /verify
verify(value) ==
    /\ resp' = Response("verify", value,
                        Scan([i \in 1..Len(REPO) |-> RepoCols(safe_read(REPO)[i])]
                               \o [i \in 1..Len(NEWFILE) |->
                                      RepoCols(safe_read(NEWFILE)[i])],
                             normalize(to_roman(value)), 1))
    /\ UNCHANGED <<NEWFILE, REPO, ANNOTATORS, session, hist, req, fn>>

\* GET and POST /
login(method, username, password, name) ==
    IF method = "POST" /\ StripLower(username) # "" /\ password # ""
       /\ authenticate(StripLower(username), password)
    THEN /\ session' =
                [username |-> StripLower(username),
                 annotator |-> IF name # "" THEN name ELSE StripLower(username),
                 role |-> IF StripLower(username) = "admin"
                          THEN "admin" ELSE "annotator"]
         /\ ANNOTATORS' =
                ensure_annotator(IF name # "" THEN name ELSE StripLower(username),
                                 StripLower(username))
         /\ resp' = Response("login", username, "302 /welcome")
         /\ UNCHANGED <<NEWFILE, REPO, hist, req, fn>>
    ELSE /\ resp' = Response("login", username, "200 login.html")
         /\ UNCHANGED <<NEWFILE, REPO, ANNOTATORS, session, hist, req, fn>>

\* GET and POST /annotate
annotate(method, form) ==
    IF session.annotator = None \/ is_admin
    THEN /\ resp' = Response("annotate", form, "302 /")
         /\ UNCHANGED <<NEWFILE, REPO, ANNOTATORS, session, hist, req, fn>>
    ELSE IF method = "POST"
    THEN /\ Len(NEWFILE) + Len(REPO) < MaxRecords
         /\ NEWFILE' = to_csv(Append(safe_read(NEWFILE),
                [serial_no |-> next_serial,
                 proverb_telugu |-> form.proverb_telugu,
                 proverb_english |-> normalize(to_roman(form.proverb_english)),
                 meaning_english |-> form.meaning_english,
                 keywords |-> form.keywords,
                 annotator |-> session.annotator]))
         /\ ANNOTATORS' = increment_contribution(session.annotator)
         /\ resp' = Response("annotate", form, "200 annotate.html saved")
         /\ hist' = [hist EXCEPT !.submitted[session.annotator] = @ + 1,
                             !.retired = @ \ {next_serial}]
         /\ UNCHANGED <<REPO, session, req, fn>>
    ELSE /\ resp' = Response("annotate", form, "200 annotate.html")
         /\ UNCHANGED <<NEWFILE, REPO, ANNOTATORS, session, hist, req, fn>>

\* GET /admin/new
admin_new ==
    /\ resp' = Response("admin_new", None,
                        IF is_admin THEN "200 admin_new.html" ELSE "302 /")
    /\ UNCHANGED <<NEWFILE, REPO, ANNOTATORS, session, hist, req, fn>>

\* admin_approve indexing the selected row before it tests row.empty
admin_approve_unchecked(serial_no) ==
    IF ~is_admin
    THEN /\ resp' = Response("admin_approve", serial_no, "302 /")
         /\ UNCHANGED <<NEWFILE, REPO, ANNOTATORS, session, hist, req, fn>>
    ELSE IF \A i \in 1..Len(NEWFILE) : NEWFILE[i].serial_no # serial_no
    THEN /\ resp' = Response("admin_approve", serial_no, "500")
         /\ UNCHANGED <<NEWFILE, REPO, ANNOTATORS, session, hist, req, fn>>
    ELSE /\ REPO' = to_csv(safe_read(REPO) \o
                [i \in 1..Len(SelectSeq(safe_read(NEWFILE),
                                        LAMBDA r : r.serial_no = serial_no)) |->
                    RepoCols(SelectSeq(safe_read(NEWFILE),
                                       LAMBDA r : r.serial_no = serial_no)[i])])
         /\ NEWFILE' = to_csv(SelectSeq(safe_read(NEWFILE),
                                        LAMBDA r : r.serial_no # serial_no))
         /\ resp' = Response("admin_approve", serial_no, "302 /admin/new")
         /\ hist' = [hist EXCEPT !.approved = @ \cup {serial_no},
                             !.retired = @ \cup {serial_no}]
         /\ UNCHANGED <<ANNOTATORS, session, req, fn>>

\* admin_approve without the rewrite of the pending file
admin_approve_no_remove(serial_no) ==
    IF ~is_admin
    THEN /\ resp' = Response("admin_approve", serial_no, "302 /")
         /\ UNCHANGED <<NEWFILE, REPO, ANNOTATORS, session, hist, req, fn>>
    ELSE IF \A i \in 1..Len(NEWFILE) : NEWFILE[i].serial_no # serial_no
    THEN /\ resp' = Response("admin_approve", serial_no, "302 /admin/new")
         /\ UNCHANGED <<NEWFILE, REPO, ANNOTATORS, session, hist, req, fn>>
    ELSE /\ REPO' = to_csv(safe_read(REPO) \o
                [i \in 1..Len(SelectSeq(safe_read(NEWFILE),
                                        LAMBDA r : r.serial_no = serial_no)) |->
                    RepoCols(SelectSeq(safe_read(NEWFILE),
                                       LAMBDA r : r.serial_no = serial_no)[i])])
         /\ NEWFILE' = NEWFILE
         /\ resp' = Response("admin_approve", serial_no, "302 /admin/new")
         /\ hist' = [hist EXCEPT !.approved = @ \cup {serial_no},
                             !.retired = @ \cup {serial_no}]
         /\ UNCHANGED <<ANNOTATORS, session, req, fn>>

\* GET /admin/approve/<serial_no>
admin_approve(serial_no) ==
    IF ~is_admin
    THEN /\ resp' = Response("admin_approve", serial_no, "302 /")
         /\ UNCHANGED <<NEWFILE, REPO, ANNOTATORS, session, hist, req, fn>>
    ELSE IF \A i \in 1..Len(NEWFILE) : NEWFILE[i].serial_no # serial_no
    THEN /\ resp' = Response("admin_approve", serial_no, "302 /admin/new")
         /\ UNCHANGED <<NEWFILE, REPO, ANNOTATORS, session, hist, req, fn>>
    ELSE /\ REPO' = to_csv(safe_read(REPO) \o
                [i \in 1..Len(SelectSeq(safe_read(NEWFILE),
                                        LAMBDA r : r.serial_no = serial_no)) |->
                    RepoCols(SelectSeq(safe_read(NEWFILE),
                                       LAMBDA r : r.serial_no = serial_no)[i])])
         /\ NEWFILE' = to_csv(SelectSeq(safe_read(NEWFILE),
                                        LAMBDA r : r.serial_no # serial_no))
         /\ resp' = Response("admin_approve", serial_no, "302 /admin/new")
         /\ hist' = [hist EXCEPT !.approved = @ \cup {serial_no},
                             !.retired = @ \cup {serial_no}]
         /\ UNCHANGED <<ANNOTATORS, session, req, fn>>

\* switch_to_annotator that redirects without setting the role
switch_to_annotator_no_role ==
    IF ~is_admin
    THEN /\ resp' = Response("switch_to_annotator", None, "302 /")
         /\ UNCHANGED <<NEWFILE, REPO, ANNOTATORS, session, hist, req, fn>>
    ELSE /\ resp' = Response("switch_to_annotator", None, "302 /annotate")
         /\ UNCHANGED <<NEWFILE, REPO, ANNOTATORS, session, hist, req, fn>>

\* POST /switch-to-annotator
switch_to_annotator ==
    IF ~is_admin
    THEN /\ resp' = Response("switch_to_annotator", None, "302 /")
         /\ UNCHANGED <<NEWFILE, REPO, ANNOTATORS, session, hist, req, fn>>
    ELSE /\ session' = [session EXCEPT !.role = "annotator"]
         /\ resp' = Response("switch_to_annotator", None, "302 /annotate")
         /\ UNCHANGED <<NEWFILE, REPO, ANNOTATORS, hist, req, fn>>

\* GET /logout
logout ==
    /\ session' = EmptySession
    /\ resp' = Response("logout", None, "302 /")
    /\ UNCHANGED <<NEWFILE, REPO, ANNOTATORS, hist, req, fn>>

\* a request for a path no route matches, as /admin/reject/<serial_no>:
\* the routes are login, welcome, annotate, verify, the admin pages,
\* admin_approve, switch_to_annotator and logout
admin_reject(serial_no) ==
    /\ resp' = Response("admin_reject", serial_no, "404")
    /\ UNCHANGED <<NEWFILE, REPO, ANNOTATORS, session, hist, req, fn>>

Next ==
    \/ \E value \in VerifyInputs : verify(value)
    \/ \E method \in Methods, username \in UsernameInputs,
          password \in PasswordInputs, name \in NameInputs :
            login(method, username, password, name)
    \/ \E method \in Methods, form \in Forms : annotate(method, form)
    \/ admin_new
    \/ \E serial_no \in SerialInputs : admin_approve(serial_no)
    \/ switch_to_annotator
    \/ logout
    \/ \E serial_no \in SerialInputs : admin_reject(serial_no)

Spec == Init /\ [][Next]_vars

(***************************************************************************)
(* admin_approve under a threaded server: two approve requests in flight,  *)
(* each a sequence of file reads and writes with no lock between them      *)
(***************************************************************************)
\* the rows of a DataFrame with the serial
RowsOf(df, serial_no) == SelectSeq(df, LAMBDA r : r.serial_no = serial_no)

\* lines 242-248: the role test, safe_read(NEW) and the row selection
approve_load_new(r, serial_no) ==
    /\ req[r].pc = "idle"
    /\ Len(REPO) < MaxRecords
    /\ IF ~is_admin
       THEN /\ resp' = Response("admin_approve", serial_no, "302 /")
            /\ UNCHANGED req
       ELSE IF RowsOf(safe_read(NEWFILE), serial_no) = <<>>
       THEN /\ resp' = Response("admin_approve", serial_no, "302 /admin/new")
            /\ UNCHANGED req
       ELSE /\ req' = [req EXCEPT ![r] =
                        [pc |-> "load_repo", serial_no |-> serial_no,
                         new_df |-> safe_read(NEWFILE), repo_df |-> <<>>]]
            /\ UNCHANGED resp
    /\ UNCHANGED <<NEWFILE, REPO, ANNOTATORS, session, hist, fn>>

\* lines 250-253: safe_read(REPO) and the concat of the selected row
approve_load_repo(r) ==
    /\ req[r].pc = "load_repo"
    /\ req' = [req EXCEPT ![r].pc = "save_repo",
                          ![r].repo_df = safe_read(REPO) \o
                              [i \in 1..Len(RowsOf(req[r].new_df, req[r].serial_no)) |->
                                  RepoCols(RowsOf(req[r].new_df, req[r].serial_no)[i])]]
    /\ UNCHANGED <<NEWFILE, REPO, ANNOTATORS, session, resp, hist, fn>>

\* line 255: repo_df.to_csv(REPO)
approve_save_repo(r) ==
    /\ req[r].pc = "save_repo"
    /\ REPO' = to_csv(req[r].repo_df)
    /\ req' = [req EXCEPT ![r].pc = "save_new"]
    /\ UNCHANGED <<NEWFILE, ANNOTATORS, session, resp, hist, fn>>

\* line 256: the rows of the other serials written to NEW
approve_save_new(r) ==
    /\ req[r].pc = "save_new"
    /\ NEWFILE' = to_csv(SelectSeq(req[r].new_df,
                                   LAMBDA row : row.serial_no # req[r].serial_no))
    /\ req' = [req EXCEPT ![r].pc = "return"]
    /\ hist' = [hist EXCEPT !.approved = @ \cup {req[r].serial_no},
                            !.retired = @ \cup {req[r].serial_no}]
    /\ UNCHANGED <<REPO, ANNOTATORS, session, resp, fn>>

\* line 258: the redirect to the pending list
approve_return(r) ==
    /\ req[r].pc = "return"
    /\ resp' = Response("admin_approve", req[r].serial_no, "302 /admin/new")
    /\ req' = [req EXCEPT ![r] = NoRequest]
    /\ UNCHANGED <<NEWFILE, REPO, ANNOTATORS, session, hist, fn>>

\* no approve request is in flight
AllIdle == \A r \in Requests : req[r].pc = "idle"

\* the approve requests interleave step by step; the other handlers run
\* between them, while none is in flight
NextConc ==
    \/ AllIdle /\ \E value \in VerifyInputs : verify(value)
    \/ AllIdle /\ \E method \in Methods, username \in UsernameInputs,
                     password \in PasswordInputs, name \in NameInputs :
                       login(method, username, password, name)
    \/ AllIdle /\ \E method \in Methods, form \in Forms : annotate(method, form)
    \/ AllIdle /\ admin_new
    \/ AllIdle /\ switch_to_annotator
    \/ AllIdle /\ logout
    \/ \E r \in Requests, serial_no \in SerialInputs :
            approve_load_new(r, serial_no)
    \/ \E r \in Requests : approve_load_repo(r)
    \/ \E r \in Requests : approve_save_repo(r)
    \/ \E r \in Requests : approve_save_new(r)
    \/ \E r \in Requests : approve_return(r)

SpecConc == Init /\ [][NextConc]_vars

(***************************************************************************)
(* Calls of the helpers on their own                                       *)
(***************************************************************************)
Chars == {"a", "A", "n", " ", "TA", "TAA"}

RECURSIVE TextsOfLen(_)
\* the texts of n characters
TextsOfLen(n) ==
    IF n = 0 THEN {<<>>}
    ELSE {Append(t, c) : t \in TextsOfLen(n - 1), c \in Chars}

\* the arguments: the texts of up to MaxLen characters and the float NaN
Arguments == UNION {TextsOfLen(n) : n \in 0..MaxLen} \cup {NaN}

InitFn ==
    /\ NEWFILE = <<>>
    /\ REPO = <<>>
    /\ ANNOTATORS = <<>>
    /\ session = EmptySession
    /\ resp = None
    /\ hist = [submitted |-> [u \in Usernames |-> 0], approved |-> {},
               retired |-> {}]
    /\ req = [r \in Requests |-> NoRequest]
    /\ fn \in {[x |-> t, y |-> t, out |-> NoResult] : t \in Arguments}

\* the variant with the case of its i-th letter changed
vary_case(i) ==
    /\ fn.y # NaN
    /\ i \in 1..Len(fn.y)
    /\ fn.y[i] \in {"a", "A"}
    /\ fn' = [fn EXCEPT !.y[i] = IF @ = "a" THEN "A" ELSE "a",
                        !.out = NoResult]
    /\ UNCHANGED <<NEWFILE, REPO, ANNOTATORS, session, resp, hist, req>>

\* the variant with one more space in front or behind
vary_pad(front) ==
    /\ fn.y # NaN
    /\ Len(fn.y) < Len(fn.x) + MaxPad
    /\ fn' = [fn EXCEPT !.y = IF front THEN <<" ">> \o @ ELSE @ \o <<" ">>,
                        !.out = NoResult]
    /\ UNCHANGED <<NEWFILE, REPO, ANNOTATORS, session, resp, hist, req>>

\* the variant with the run of spaces at i one space longer
vary_run(i) ==
    /\ fn.y # NaN
    /\ Len(fn.y) < Len(fn.x) + MaxPad
    /\ i \in 1..Len(fn.y)
    /\ fn.y[i] = " "
    /\ fn' = [fn EXCEPT !.y = SubSeq(@, 1, i) \o <<" ">>
                                \o SubSeq(@, i + 1, Len(@)),
                        !.out = NoResult]
    /\ UNCHANGED <<NEWFILE, REPO, ANNOTATORS, session, resp, hist, req>>

\* normalize called on the text, on its result and on the variant
call_normalize ==
    /\ fn' = [fn EXCEPT !.out =
                [f |-> "normalize", raised |-> FALSE,
                 result |-> normalize(fn.x),
                 of_y |-> normalize(fn.y),
                 twice |-> normalize(normalize(fn.x))]]
    /\ UNCHANGED <<NEWFILE, REPO, ANNOTATORS, session, resp, hist, req>>

\* to_roman called on the text, the engine raising or not
call_to_roman(engine_raises) ==
    /\ fn' = [fn EXCEPT !.out =
                [f |-> "to_roman", raised |-> engine_raises \/ fn.x = NaN,
                 result |-> to_roman_engine(fn.x, engine_raises),
                 of_y |-> <<>>, twice |-> <<>>]]
    /\ UNCHANGED <<NEWFILE, REPO, ANNOTATORS, session, resp, hist, req>>

NextFn ==
    \/ \E i \in 1..(MaxLen + MaxPad) : vary_case(i)
    \/ \E front \in BOOLEAN : vary_pad(front)
    \/ \E i \in 1..(MaxLen + MaxPad) : vary_run(i)
    \/ call_normalize
    \/ \E engine_raises \in BOOLEAN : call_to_roman(engine_raises)

SpecFn == InitFn /\ [][NextFn]_vars

(***************************************************************************)
(* Vocabulary of the properties                                            *)
(***************************************************************************)
\* serial s names a record of the pending queue
Present(s) == \E i \in 1..Len(NEWFILE) : NEWFILE[i].serial_no = s

\* the four Entry fields of a stored record
Entry(r) == <<r.proverb_telugu, r.proverb_english, r.meaning_english, r.keywords>>

\* sequence q without its i-th element
RemoveAt(q, i) == [j \in 1..(Len(q) - 1) |-> IF j < i THEN q[j] ELSE q[j + 1]]

\* the session may submit
CanSubmit == session.annotator # None /\ ~is_admin

\* the contribution count the ledger file holds for a name, 0 if none
CountOf(ledger, name) ==
    IF \E i \in 1..Len(ledger) : ledger[i].name = name
    THEN (CHOOSE r \in {ledger[i] : i \in 1..Len(ledger)} : r.name = name).contributions
    ELSE 0

Contributors == {"admin", "u1"}

\* the stored records of both collections, as their four Entry fields
Stored == {Entry(REPO[i]) : i \in 1..Len(REPO)}
            \cup {Entry(NEWFILE[i]) : i \in 1..Len(NEWFILE)}

(***************************************************************************)
(* C1..C10                                                                 *)
(***************************************************************************)
\* C1: an approval by an admin of a serial present in the pending queue
\* appends exactly one record to the repository, with the four Entry fields
\* of the pending record of that serial, and removes exactly that record
\* from the pending queue; all other records stay as they are.
C1_ApproveMovesOneRecord ==
    [][\A s \in SerialInputs :
        (is_admin /\ Present(s) /\ admin_approve(s)) =>
            \E i \in 1..Len(NEWFILE) :
                /\ NEWFILE[i].serial_no = s
                /\ Len(REPO') = Len(REPO) + 1
                /\ \A j \in 1..Len(REPO) : REPO'[j] = REPO[j]
                /\ Entry(REPO'[Len(REPO')]) = Entry(NEWFILE[i])
                /\ DOMAIN REPO'[Len(REPO')] = TextCols
                /\ NEWFILE' = RemoveAt(NEWFILE, i)]_vars

\* an approval has moved a record while another one is still pending
C1_Witness ==
    /\ resp = "302 /admin/new"
    /\ Len(REPO) >= 1
    /\ Len(NEWFILE) >= 1

\* C2: an approval of a pending submission raises the count of the
\* contributor who submitted it by exactly one, and no other count.
C2_ApproveIncrementsSubmitter ==
    [][\A s \in SerialInputs :
        (is_admin /\ Present(s) /\ admin_approve(s)) =>
            \A i \in 1..Len(NEWFILE) :
                NEWFILE[i].serial_no = s =>
                    \A n \in Contributors :
                        CountOf(ANNOTATORS', n) =
                            CountOf(ANNOTATORS, n)
                              + (IF n = NEWFILE[i].annotator THEN 1 ELSE 0)]_vars

\* some stored record has the non-blank normalized native key or the
\* non-blank normalized roman key of the form
IsDuplicate(form) ==
    \E e \in Stored :
        \/ /\ normalize(to_roman(form.proverb_telugu)) # <<>>
           /\ normalize(to_roman(e[1])) = normalize(to_roman(form.proverb_telugu))
        \/ /\ normalize(to_roman(form.proverb_english)) # <<>>
           /\ normalize(e[2]) = normalize(to_roman(form.proverb_english))

\* C3: a submission whose normalized native or roman text equals that of a
\* stored record (pending or canonical) creates no pending record and
\* changes no collection.  Stated for non-blank text, so that it does not
\* rest on what happens to a blank submission.
C3_DuplicateSubmitNoMutation ==
    [][\A form \in Forms :
        (CanSubmit /\ IsDuplicate(form) /\ annotate("POST", form)) =>
            UNCHANGED <<NEWFILE, REPO, ANNOTATORS>>]_vars

\* C4: a submission changes no contribution count; its only side effect is
\* one record appended to the pending queue.
C4_SubmitLeavesLedger ==
    [][\A form \in Forms :
        annotate("POST", form) =>
            /\ \A n \in Contributors :
                 CountOf(ANNOTATORS', n) = CountOf(ANNOTATORS, n)
            /\ REPO' = REPO]_vars

\* C5: the repository changes only by an approval of a pending record by an
\* admin, which appends the four Entry fields of a record then pending;
\* verify, login, annotate, switch_to_annotator and logout leave it as it is.
C5_RepoOnlyByApproval ==
    [][/\ REPO' # REPO =>
            \E s \in SerialInputs :
                /\ is_admin
                /\ admin_approve(s)
                /\ Len(REPO') = Len(REPO) + 1
                /\ \A j \in 1..Len(REPO) : REPO'[j] = REPO[j]
                /\ \E i \in 1..Len(NEWFILE) :
                      /\ NEWFILE[i].serial_no = s
                      /\ Entry(REPO'[Len(REPO')]) = Entry(NEWFILE[i])
       /\ REPO' # REPO =>
            ~(\/ \E value \in VerifyInputs : verify(value)
              \/ \E method \in Methods, username \in UsernameInputs,
                    password \in PasswordInputs, name \in NameInputs :
                      login(method, username, password, name)
              \/ \E method \in Methods, form \in Forms : annotate(method, form)
              \/ switch_to_annotator
              \/ logout)]_vars

\* the admin has switched to annotator after an approval filled the repository
C5_Witness ==
    /\ resp = "302 /annotate"
    /\ Len(REPO) >= 1

\* C6: an approval of a serial that is not in the pending queue leaves the
\* pending queue, the repository and the ledger as they are and answers
\* with the redirect to the pending list, not with an error.
C6_ApproveAbsentNoOp ==
    [][\A s \in SerialInputs :
        (is_admin /\ ~Present(s) /\ admin_approve(s)) =>
            /\ UNCHANGED <<NEWFILE, REPO, ANNOTATORS>>
            /\ resp' = "302 /admin/new"]_vars

\* the admin has approved a serial nobody holds while a record is pending
\* (the repository is still empty, so no approval has moved a record)
C6_Witness ==
    /\ resp = "302 /admin/new"
    /\ REPO = <<>>
    /\ NEWFILE # <<>>

\* the form with a blank proverb
BlankForm(form) == form.proverb_telugu = <<>> /\ form.proverb_english = <<>>

\* C7: a submission with a blank proverb is answered "empty" and appends
\* no pending record and leaves the ledger; verify of blank text answers
\* "empty".
C7_BlankRejected ==
    [][/\ \A form \in Forms :
            (CanSubmit /\ BlankForm(form) /\ annotate("POST", form)) =>
                /\ UNCHANGED <<NEWFILE, REPO, ANNOTATORS>>
                /\ resp' = "empty"
       /\ verify(<<>>) => resp' = "empty"]_vars

\* C8: a rejection by an admin of a serial in the pending queue removes
\* exactly that record and leaves repository and ledger; of an absent serial
\* it changes nothing.
C8_RejectRemovesOne ==
    [][\A s \in SerialInputs :
        (is_admin /\ admin_reject(s)) =>
            /\ UNCHANGED <<REPO, ANNOTATORS>>
            /\ IF Present(s)
               THEN \E i \in 1..Len(NEWFILE) :
                        /\ NEWFILE[i].serial_no = s
                        /\ NEWFILE' = RemoveAt(NEWFILE, i)
               ELSE NEWFILE' = NEWFILE]_vars

\* C9: for every text t, while a submission of t is stored (pending or
\* canonical), the duplicate check of t answers that it exists.
C9_DuplicateCheckReflexive ==
    [][\A value \in VerifyInputs :
        (verify(value) /\ \E e \in Stored : e[1] = value) =>
            resp' = "exists"]_vars

\* the largest serial of the pending queue
MaxPendingSerial ==
    CHOOSE m \in {NEWFILE[i].serial_no : i \in 1..Len(NEWFILE)} :
        \A i \in 1..Len(NEWFILE) : NEWFILE[i].serial_no <= m

\* C10: a submission gets serial 1 if the pending queue is empty, else the
\* largest pending serial + 1; so after the queue is drained the next
\* submission gets serial 1 again.
C10_SerialAssignment ==
    [][\A form \in Forms :
        (CanSubmit /\ annotate("POST", form)) =>
            /\ Len(NEWFILE') = Len(NEWFILE) + 1
            /\ NEWFILE'[Len(NEWFILE')].serial_no =
                  IF NEWFILE = <<>> THEN 1 ELSE MaxPendingSerial + 1]_vars

\* a submission has just got serial 1 although an earlier submission was
\* numbered and approved before it
C10_Witness ==
    /\ resp = "200 annotate.html saved"
    /\ Len(REPO) >= 1
    /\ Len(NEWFILE) = 1
    /\ NEWFILE[1].serial_no = 1

(***************************************************************************)
(* C11..C20                                                                *)
(***************************************************************************)
\* the text holds a character of the Telugu block
IsNativeScript(value) ==
    \E i \in 1..Len(value) : value[i] \in {"TA", "TAA"}

\* some stored record has the normalized native text of the candidate in its
\* native field, or the normalized roman form of the candidate in its roman
\* field
SameFieldMatch(value) ==
    \E e \in Stored :
        \/ normalize(e[1]) = normalize(value)
        \/ normalize(e[2]) = normalize(to_roman(value))

\* C12: the duplicate check answers exists exactly when some stored record
\* (canonical or pending) has a normalized native field equal to the
\* candidate's normalized native form, or a normalized roman field equal to
\* the candidate's normalized roman form; native is compared with native
\* only and roman with roman only.  Stated for a candidate in native script
\* (its native form is the text itself) and for collections in which every
\* record has native text.
C12_MatchIffSameField ==
    [][\A value \in VerifyInputs :
        (/\ verify(value)
         /\ IsNativeScript(value)
         /\ \A e \in Stored : e[1] # <<>>) =>
            (resp' = "exists" <=> SameFieldMatch(value))]_vars

\* C13: the serial numbers of the records of the pending queue are pairwise
\* distinct.
C13_PendingSerialsDistinct ==
    \A i, j \in 1..Len(NEWFILE) :
        NEWFILE[i].serial_no = NEWFILE[j].serial_no => i = j

\* a submission has just been stored behind another pending one
C13_Witness ==
    /\ resp = "200 annotate.html saved"
    /\ Len(NEWFILE) >= 2

\* one of the files an approval writes differs after the step
FilesChange == NEWFILE' # NEWFILE \/ REPO' # REPO

\* C19: an approve request changes the pending queue or the repository only
\* if the role of the session is admin; from any other session it changes
\* nothing and is redirected to the login page.
C19_ApproveNeedsAdmin ==
    [][\A s \in SerialInputs :
        admin_approve(s) =>
            /\ FilesChange => session.role = "admin"
            /\ session.role # "admin" =>
                  /\ UNCHANGED <<NEWFILE, REPO, ANNOTATORS, session>>
                  /\ resp' = "302 /"]_vars

\* a contributor session was turned away from an admin route while a record
\* is pending
C19_Witness ==
    /\ resp = "302 /"
    /\ session.role = "annotator"
    /\ session.username = "u1"
    /\ NEWFILE # <<>>

\* C20: no session can both store a submission and move a record by an
\* approval; the role admin is held by a session of username admin only, is
\* gained only by a successful login as admin and is gone after
\* switch_to_annotator and after logout; a session that has switched can
\* submit and its approvals change nothing.
C20_RolesExclusive ==
    [][/\ \A form \in Forms :
            annotate("POST", form) =>
                /\ NEWFILE' # NEWFILE => session.role # "admin"
                /\ session.role = "annotator" =>
                      Len(NEWFILE') = Len(NEWFILE) + 1
       /\ \A s \in SerialInputs :
            (admin_approve(s) /\ FilesChange) => session.role = "admin"
       /\ session'.role = "admin" => session'.username = "admin"
       /\ (session.role # "admin" /\ session'.role = "admin") =>
              \E username \in UsernameInputs, password \in PasswordInputs,
                 name \in NameInputs :
                   /\ login("POST", username, password, name)
                   /\ StripLower(username) = "admin"
                   /\ password = "pw"
       /\ (switch_to_annotator \/ logout) => session'.role # "admin"
       /\ (session.role = "admin" /\ switch_to_annotator) =>
              /\ session'.role = "annotator"
              /\ session'.annotator # None]_vars

\* the session of admin has switched to annotator and stored a submission
C20_Witness ==
    /\ session.username = "admin"
    /\ session.role = "annotator"
    /\ resp = "200 annotate.html saved"

\* the pending records a contributor submitted
PendingBy(c) == {i \in 1..Len(NEWFILE) : NEWFILE[i].annotator = c}

\* C11: once the n submissions a contributor has made have all been
\* approved (none of them is pending any more), the count of the
\* contributor, which started at 0, is n.
C11_CountIsSubmissionsApproved ==
    \A c \in Contributors :
        PendingBy(c) = {} => CountOf(ANNOTATORS, c) = hist.submitted[c]

\* two submissions of one contributor have both been approved
C11_Witness ==
    /\ hist.submitted["u1"] = 2
    /\ NEWFILE = <<>>
    /\ Len(REPO) = 2
    /\ hist.approved # {}

\* C14 as claimed: once approve(s) has moved a submission, a later
\* approve(s) adds no record to the repository, whatever submissions and
\* approvals happen between the two.
C14_RetryIgnoredAlways ==
    [][\A s \in SerialInputs :
        (s \in hist.approved /\ admin_approve(s)) => REPO' = REPO]_vars

\* C14 as amended: once approve(s) has moved a submission, a later
\* approve(s) changes neither file and is redirected to the pending list,
\* whatever approvals and submissions happen between the two, unless one of
\* those submissions was given the serial s again.
C14_RetryIgnoredUntilReissue ==
    [][\A s \in SerialInputs :
        (s \in hist.retired /\ session.role = "admin" /\ admin_approve(s)) =>
            /\ REPO' = REPO
            /\ NEWFILE' = NEWFILE
            /\ resp' = "302 /admin/new"]_vars

\* an approval has moved serial 1, which no submission got again, and the
\* admin has been answered by the approve route while serial 2 is pending
C14_Witness ==
    /\ 1 \in hist.retired
    /\ resp = "302 /admin/new"
    /\ session.role = "admin"
    /\ Len(REPO) = 1
    /\ Len(NEWFILE) = 1

\* C15: when the transliteration engine raises, to_roman returns the text it
\* was given, unchanged, and raises nothing itself.
C15_FallbackReturnsInput ==
    (fn.out.f = "to_roman" /\ fn.out.raised) =>
        /\ fn.out.result # Raise
        /\ fn.out.result = fn.x

\* C16: normalize of a normalized text is that text, and a text and a
\* variant of it that differs in the case of letters, in spaces in front or
\* behind and in the length of runs of spaces have the same normalized key.
C16_NormalizeStable ==
    fn.out.f = "normalize" =>
        /\ fn.out.twice = fn.out.result
        /\ fn.out.of_y = fn.out.result

\* normalize has been called on a text and on a variant of it that has a
\* longer run of spaces between two letters, a space in front and a letter
\* in the other case
C16_Witness ==
    /\ fn.out.f = "normalize"
    /\ fn.x # NaN
    /\ Len(fn.x) = 3
    /\ fn.x[1] = "A" /\ fn.x[2] = " " /\ fn.x[3] # " "
    /\ Len(fn.y) = 5
    /\ fn.y[1] = " " /\ fn.y[2] = "a" /\ fn.y[3] = " " /\ fn.y[4] = " "
    /\ fn.out.result # fn.x

\* the serials of a pending DataFrame
SerialsOf(df) == {df[i].serial_no : i \in 1..Len(df)}

\* the request has written both files and is about to answer
Written(r) == req[r].pc = "return"

\* the four Entry fields, as stored, of the row the request selected
EntryOf(r) == Entry(to_csv(RowsOf(req[r].new_df, req[r].serial_no))[1])

\* C17: two approvals of different pending serials that ran at the same
\* time (each read the pending file while the record of the other was in
\* it) lose neither update: once both have written, both records are in
\* the repository and neither is pending.
C17_NoLostUpdate ==
    (/\ Written(1) /\ Written(2)
     /\ req[1].serial_no # req[2].serial_no
     /\ req[2].serial_no \in SerialsOf(req[1].new_df)
     /\ req[1].serial_no \in SerialsOf(req[2].new_df)) =>
        /\ ~Present(req[1].serial_no)
        /\ ~Present(req[2].serial_no)
        /\ \A r \in Requests : \E i \in 1..Len(REPO) : Entry(REPO[i]) = EntryOf(r)

\* C18: no state has the record of an approval in flight written to the
\* repository and still in the pending file, so two approvals of one serial
\* that both found it pending add one record to the repository, not two.
C18_ApprovalAtomic ==
    /\ \A r \in Requests :
          req[r].pc = "save_new" =>
              \A i \in 1..Len(NEWFILE) :
                  NEWFILE[i] # to_csv(RowsOf(req[r].new_df, req[r].serial_no))[1]
    /\ (/\ Written(1) /\ Written(2)
        /\ req[1].serial_no = req[2].serial_no) =>
            \/ Len(REPO) < Len(req[1].repo_df)
            \/ Len(REPO) < Len(req[2].repo_df)
            \/ Len(req[1].repo_df) = Len(req[2].repo_df)

====
